---------------------------- MODULE Spec2Model ----------------------------
(***************************************************************************)
(* Pulse AI backend: the CareScore composer (routes/care_score.py), the    *)
(* escalation state machine (services/escalation_service.py,               *)
(* routes/escalation.py), the ingest-and-analyze webhook                   *)
(* (routes/webhook.py) and the anomaly detector                            *)
(* (services/anomaly_detector.py, routes/analysis.py).                     *)
(*                                                                         *)
(* Numbers.  Python floats are modelled in fixed point.  Every stored      *)
(* Float column (care_score, severity_score, ...) is an integer count of   *)
(* hundredths: 30.5 is 3050.  The composer's running `score` is a rational *)
(* score_num / score_den whose denominator is |baseline heart rate|, the   *)
(* only divisor the composer uses.  Time is a count of hours.              *)
(* An Optional[float] is a sequence: <<>> is None, <<v>> is the value v.   *)
(***************************************************************************)
EXTENDS Integers, Sequences, FiniteSets, TLC

VARIABLES
    now,           \* datetime.utcnow(), in hours
    baseline_hr,   \* users table: user id -> User.baseline_heart_rate
    health,        \* health_data table: user id -> latest HealthData row, or None
    care_scores,   \* care_scores table: sequence of CareScore rows, id = index
    escalations,   \* escalations table: sequence of Escalation rows, id = index
    calc,          \* locals of the last calculate_simple_care_score call
    reqs,          \* in-flight check and analysis requests (worker -> frame)
    ret,           \* the last HTTP response
    readings,      \* health_data table: the HealthData rows the detector reads
    report,        \* what the last AnomalyDetector call returned
    api_keys,      \* api_keys table: sequence of APIKey rows, id = index
    connections    \* patient_doctors and patient_caretakers tables

vars == <<now, baseline_hr, health, care_scores, escalations, calc, reqs, ret,
          readings, report, api_keys, connections>>

----------------------------------------------------------------------------
(* Bounds of the model *)

MaxTime == 25
MaxEscalations == 2
MaxCareScores == 1
\* how far the clock moves between two requests, in hours
TickSteps == {12, 13}

----------------------------------------------------------------------------
(* Python values *)

None == <<>>
Some(v) == <<v>>
Val(o) == o[1]
\* `if x:` on an Optional[float]: None and 0 are both falsy
Truthy(o) == o # None /\ Val(o) # 0

Abs(x) == IF x < 0 THEN -x ELSE x
Min(a, b) == IF a <= b THEN a ELSE b
Max(a, b) == IF a >= b THEN a ELSE b
Sgn(x) == IF x < 0 THEN -1 ELSE IF x = 0 THEN 0 ELSE 1

\* round(num/den, 1) for num >= 0, den > 0, in hundredths.  Python rounds to
\* the nearest tenth and an exactly representable tie to the even tenth.
round1(num, den) ==
    LET q == (10 * num) \div den
        r == (10 * num) % den
        tenths == IF 2 * r < den THEN q
                  ELSE IF 2 * r > den THEN q + 1
                  ELSE IF q % 2 = 0 THEN q ELSE q + 1
    IN  10 * tenths

----------------------------------------------------------------------------
(* users and the requests' inputs *)

Users == {1, 2}
\* ids a request may name: the users and one id no user has
RequestUserIds == {1, 2, 3}

HeartRates == {None, Some(0), Some(54), Some(124), Some(126)}
BaselineHeartRates == {None, Some(100), Some(-72)}
Hrvs == {None, Some(25)}
SleepDurations == {None, Some(5), Some(6), Some(8)}
\* <<bp_systolic, bp_diastolic>>
BloodPressures ==
    {<<None, None>>, <<Some(120), None>>, <<Some(135), Some(80)>>,
     <<Some(120), Some(95)>>, <<Some(185), Some(80)>>, <<Some(120), Some(125)>>}
BloodSugars == {None, Some(60), Some(150), Some(210)}
ActivityLevels == {None, Some(0), Some(5000)}
\* what the language-model endpoint may answer: a JSON object, nothing usable
\* (non-200, timeout, exception), or JSON text that is not an object
GeminiOutcomes == {"dict", "none", "nondict"}
\* what the HTTP call to the endpoint may do: answer 200 with a JSON object
\* or with a JSON string that holds plain text or an array; answer another
\* status code; time out or fail to connect
GeminiResponses ==
    {"object", "plain_text", "array_text", "error_status", "timeout"}

HealthRow(hr, hrv, sleep, bp, sugar, act) ==
    [heart_rate |-> hr, hrv |-> hrv, sleep_duration |-> sleep,
     bp_systolic |-> bp[1], bp_diastolic |-> bp[2],
     blood_sugar |-> sugar, activity_level |-> act]

HealthRows ==
    {HealthRow(hr, hrv, sleep, bp, sugar, act) :
        hr \in HeartRates, hrv \in Hrvs, sleep \in SleepDurations,
        bp \in BloodPressures, sugar \in BloodSugars, act \in ActivityLevels}

\* the detector has not been called
NoReport == [op |-> "none"]

\* no patient has a doctor or a caretaker
NoConnections == [doctor |-> <<>>, caretaker |-> <<>>]

----------------------------------------------------------------------------
(* calculate_simple_care_score *)

\* the heart-rate branch: min(15, (abs(hr - baseline) / baseline * 100) / 2),
\* as a numerator over den = |baseline|
heart_rate_points(hr, baseline) ==
    Min(15 * Abs(baseline), Sgn(baseline) * 50 * Abs(hr - baseline))

\* status_band with exclusive upper ends
status_band_exclusive(num, den) ==
    IF num < 30 * den THEN "Stable"
    ELSE IF num < 50 * den THEN "Mild"
    ELSE IF num < 70 * den THEN "Moderate"
    ELSE "High"

\* `if score <= 30 ... elif score <= 50 ... elif score <= 70 ... else`
status_band(num, den) ==
    IF num <= 30 * den THEN "Stable"
    ELSE IF num <= 50 * den THEN "Mild"
    ELSE IF num <= 70 * den THEN "Moderate"
    ELSE "High"

\* normalize_score without the lower clamp
normalize_score_no_floor(num, den) == Min(100 * den, num)

\* score = min(100, max(0, score))
normalize_score(num, den) == Min(100 * den, Max(0, num))

calculate_simple_care_score(h, user_baseline_heart_rate) ==
    LET baseline == IF Truthy(user_baseline_heart_rate)
                    THEN Val(user_baseline_heart_rate) ELSE 72
        den == Abs(baseline)
        hr_dev == Truthy(h.heart_rate)
                  /\ (Val(h.heart_rate) > 100 \/ Val(h.heart_rate) < 55)
        hr_num == IF hr_dev THEN heart_rate_points(Val(h.heart_rate), baseline)
                  ELSE 0
        hrv_dev == Truthy(h.hrv) /\ Val(h.hrv) < 30
        hrv_pts == IF hrv_dev THEN 10 ELSE 0
        sleep_dev == Truthy(h.sleep_duration) /\ Val(h.sleep_duration) < 6
        sleep_pts == IF ~Truthy(h.sleep_duration) THEN 0
                     ELSE IF Val(h.sleep_duration) < 6 THEN 8
                     ELSE IF Val(h.sleep_duration) < 7 THEN 4
                     ELSE 0
        bp == Truthy(h.bp_systolic) /\ Truthy(h.bp_diastolic)
        bp_high == bp /\ (Val(h.bp_systolic) >= 180 \/ Val(h.bp_diastolic) >= 120)
        bp_elev == bp /\ ~bp_high
                   /\ (Val(h.bp_systolic) >= 140 \/ Val(h.bp_diastolic) >= 90)
        bp_pts == IF bp_high THEN 20
                  ELSE IF bp_elev THEN 12
                  ELSE IF bp /\ Val(h.bp_systolic) >= 130 THEN 5
                  ELSE 0
        sugar == Truthy(h.blood_sugar)
        sugar_high == sugar /\ Val(h.blood_sugar) >= 200
        sugar_elev == sugar /\ ~sugar_high /\ Val(h.blood_sugar) >= 140
        sugar_low == sugar /\ ~sugar_high /\ ~sugar_elev /\ Val(h.blood_sugar) <= 70
        sugar_pts == IF sugar_high THEN 15
                     ELSE IF sugar_elev THEN 8
                     ELSE IF sugar_low THEN 10
                     ELSE 0
        act_dev == h.activity_level # None /\ Val(h.activity_level) < 3000
        act_pts == IF act_dev THEN 5 ELSE 0
        raw_num == hr_num + den * (hrv_pts + sleep_pts + bp_pts + sugar_pts + act_pts)
        num == normalize_score(raw_num, den)
        deviations ==
            (IF hr_dev THEN <<"heart_rate">> ELSE <<>>)
            \o (IF hrv_dev THEN <<"hrv">> ELSE <<>>)
            \o (IF sleep_dev THEN <<"sleep">> ELSE <<>>)
            \o (IF bp_high \/ bp_elev THEN <<"blood_pressure">> ELSE <<>>)
            \o (IF sugar_high \/ sugar_elev \/ sugar_low THEN <<"blood_sugar">> ELSE <<>>)
            \o (IF act_dev THEN <<"activity">> ELSE <<>>)
    IN  [score |-> round1(num, den),
         status |-> status_band(num, den),
         deviations |-> deviations,
         raw_num |-> raw_num,
         score_num |-> num,
         score_den |-> den]

----------------------------------------------------------------------------
(* POST /care-score/calculate/{user_id} *)

\* what the model keeps of a response: the route, the status code, and whether
\* the body names a row (escalation_triggered / success)
Response(op, code, hit) == [op |-> op, code |-> code, hit |-> hit]

NoCalc ==
    [raw_num |-> 0, score_num |-> 0, score_den |-> 1, status |-> "Stable",
     deviations |-> <<>>, analysis |-> "", suggestions |-> <<>>]

\* get_gemini_analysis with the exception of the HTTP call left uncaught
get_gemini_analysis_uncaught(response) ==
    CASE response \in {"object", "plain_text"} -> "dict"
      [] response = "array_text" -> "nondict"
      [] response = "error_status" -> "none"
      [] response = "timeout" -> "raised"

\* get_gemini_analysis: the JSON object of a 200 answer, json.loads of a
\* string answer (plain text is wrapped into an object), None for another
\* status code and for an exception of the call
get_gemini_analysis(response) ==
    CASE response \in {"object", "plain_text"} -> "dict"
      [] response = "array_text" -> "nondict"
      [] response \in {"error_status", "timeout"} -> "none"

\* `"sleep" in d.lower()` and the like on the deviation strings
Mentions(deviations, word) == \E i \in DOMAIN deviations : deviations[i] = word

\* get_fallback_suggestions; score in hundredths
get_fallback_suggestions(score, deviations) ==
    LET suggestions ==
            (IF score >= 50 * 100 THEN <<"rest", "hydrate">> ELSE <<>>)
            \o (IF Mentions(deviations, "blood_pressure")
                THEN <<"less salt", "deep breathing">> ELSE <<>>)
            \o (IF Mentions(deviations, "blood_sugar")
                THEN <<"avoid sugar", "walk after meals">> ELSE <<>>)
            \o (IF Mentions(deviations, "sleep")
                THEN <<"no late caffeine", "sleep schedule">> ELSE <<>>)
            \o (IF Mentions(deviations, "activity")
                THEN <<"walking breaks", "stretching">> ELSE <<>>)
        chosen == IF suggestions = <<>>
                  THEN <<"keep habits", "stay consistent", "keep monitoring">>
                  ELSE suggestions
    IN  SubSeq(chosen, 1, Min(4, Len(chosen)))

\* str.lower() on the four status words
lower(status) ==
    CASE status = "Stable" -> "stable"
      [] status = "Mild" -> "mild"
      [] status = "Moderate" -> "moderate"
      [] status = "High" -> "high"

\* cross_signal_score at 5 points per deviation
cross_signal_score_by_5(deviations) == Len(deviations) * 5 * 100

\* cross_signal_score=len(deviations) * 3
cross_signal_score(deviations) == Len(deviations) * 3 * 100

\* the CareScore(...) row of calculate_care_score; score is result['score']
CareScoreRow(user_id, result, gemini_result, timestamp) ==
    [user_id |-> user_id,
     timestamp |-> timestamp,
     care_score |-> result.score,
     severity_score |-> Min(40 * 100, (result.score * 4) \div 10),
     persistence_score |-> 0,
     cross_signal_score |-> cross_signal_score(result.deviations),
     manual_modifier |-> 0,
     drift_score |-> (result.score * 5) \div 10,
     confidence_score |-> IF gemini_result = "dict" THEN 85 * 100 ELSE 70 * 100,
     stability_score |-> 100 * 100 - result.score,
     explanation |-> IF gemini_result = "dict" THEN "gemini" ELSE "template",
     status |-> lower(result.status)]

calculate_care_score(user_id, gemini) ==
    /\ Len(care_scores) < MaxCareScores
    /\ \/ \* user not found
          /\ user_id \notin Users
          /\ ret' = Response("calculate", 404, 0)
          /\ UNCHANGED <<care_scores, calc>>
       \/ \* no health data
          /\ user_id \in Users
          /\ health[user_id] = None
          /\ ret' = Response("calculate", 400, 0)
          /\ UNCHANGED <<care_scores, calc>>
       \/ /\ user_id \in Users
          /\ health[user_id] # None
          /\ \E result \in {calculate_simple_care_score(Val(health[user_id]),
                                                         baseline_hr[user_id])} :
                 /\ calc' = [raw_num |-> result.raw_num,
                             score_num |-> result.score_num,
                             score_den |-> result.score_den,
                             status |-> result.status,
                             deviations |-> result.deviations,
                             analysis |-> CASE gemini = "dict" -> "gemini"
                                            [] gemini = "none" -> "template"
                                            [] OTHER -> "",
                             suggestions |->
                                CASE gemini = "dict" -> <<"gemini">>
                                  [] gemini = "none" ->
                                       get_fallback_suggestions(result.score,
                                                                result.deviations)
                                  [] OTHER -> <<>>]
                 /\ IF gemini \notin {"dict", "none"}
                    THEN \* the call or gemini_result.get raises;
                         \* `except Exception` -> 500
                         /\ ret' = Response("calculate", 500, 0)
                         /\ UNCHANGED care_scores
                    ELSE /\ care_scores' =
                              Append(care_scores,
                                     CareScoreRow(user_id, result, gemini, now))
                         /\ ret' = Response("calculate", 200, 1)
    /\ UNCHANGED <<now, baseline_hr, health, escalations, reqs, readings, report,
                   api_keys, connections>>

----------------------------------------------------------------------------
(* EscalationService *)

ESCALATION_LEVELS ==
    [l \in {1, 2, 3} |->
        CASE l = 1 -> [name |-> "awareness", threshold |-> 31,
                       title |-> "Health Insights Available"]
          [] l = 2 -> [name |-> "caution", threshold |-> 51,
                       title |-> "Health Changes Detected"]
          [] l = 3 -> [name |-> "consultation", threshold |-> 71,
                       title |-> "Consider Consulting a Healthcare Provider"]]

\* a cooldown window of half a day
hours_half_day == 24 \div 2

\* _has_recent_escalation's default window
hours == 24

\* _determine_level with strict comparisons
determine_level_strict(score) ==
    IF score > ESCALATION_LEVELS[3].threshold * 100 THEN 3
    ELSE IF score > ESCALATION_LEVELS[2].threshold * 100 THEN 2
    ELSE IF score > ESCALATION_LEVELS[1].threshold * 100 THEN 1
    ELSE 0

\* _determine_level; score in hundredths
determine_level(score) ==
    IF score >= ESCALATION_LEVELS[3].threshold * 100 THEN 3
    ELSE IF score >= ESCALATION_LEVELS[2].threshold * 100 THEN 2
    ELSE IF score >= ESCALATION_LEVELS[1].threshold * 100 THEN 1
    ELSE 0

\* the cutoff comparison made strict
is_recent_strict(timestamp, cutoff) == timestamp > cutoff

\* Escalation.timestamp >= cutoff
is_recent(timestamp, cutoff) == timestamp >= cutoff

\* a cooldown that counts unacknowledged rows only
has_recent_unacknowledged_escalation(rows, user_id, level, t) ==
    \E i \in DOMAIN rows :
        /\ rows[i].user_id = user_id
        /\ rows[i].level = level
        /\ rows[i].acknowledged = 0
        /\ is_recent(rows[i].timestamp, t - hours)

\* _has_recent_escalation, against the committed rows `rows` at time t
has_recent_escalation(rows, user_id, level, t) ==
    \E i \in DOMAIN rows :
        /\ rows[i].user_id = user_id
        /\ rows[i].level = level
        /\ is_recent(rows[i].timestamp, t - hours)

\* _generate_message: one templated text per level
generate_message(level) ==
    CASE level = 1 -> "continue monitoring"
      [] level = 2 -> "consider reviewing"
      [] level = 3 -> "recommend consulting - not a diagnosis"
      [] OTHER -> "Health monitoring update available."

\* _get_recommendation
get_recommendation(status) ==
    CASE status = "mild" -> "Monitor your health signals"
      [] status = "moderate" -> "Consider reviewing recent lifestyle changes"
      [] status = "high" -> "We recommend scheduling a check-in"
      [] OTHER -> "Continue your current health routine."

\* the row built without care_score_id: the nullable column stays NULL (0)
EscalationRow_unlinked(user_id, care_score_id, level, t) ==
    [user_id |-> user_id,
     level |-> level,
     care_score_id |-> 0,
     title |-> ESCALATION_LEVELS[level].title,
     message |-> generate_message(level),
     health_summary |->
        [care_score |-> care_scores[care_score_id].care_score,
         status |-> care_scores[care_score_id].status,
         recommendation |-> get_recommendation(care_scores[care_score_id].status)],
     timestamp |-> t,
     acknowledged |-> 0,
     action_taken |-> None]

\* the Escalation(...) row of _create_escalation, flushed at time t
EscalationRow(user_id, care_score_id, level, t) ==
    [user_id |-> user_id,
     level |-> level,
     care_score_id |-> care_score_id,
     title |-> ESCALATION_LEVELS[level].title,
     message |-> generate_message(level),
     health_summary |->
        [care_score |-> care_scores[care_score_id].care_score,
         status |-> care_scores[care_score_id].status,
         recommendation |-> get_recommendation(care_scores[care_score_id].status)],
     timestamp |-> t,
     acknowledged |-> 0,
     action_taken |-> None]

\* the route's CareScore lookup: by id when care_score_id is truthy, else the
\* user's latest by timestamp; the set of rows .first() may return
lookup_care_score(user_id, care_score_id) ==
    IF Truthy(care_score_id)
    THEN {i \in DOMAIN care_scores : i = Val(care_score_id)}
    ELSE {i \in DOMAIN care_scores :
            /\ care_scores[i].user_id = user_id
            /\ \A j \in DOMAIN care_scores :
                  care_scores[j].user_id = user_id
                    => care_scores[j].timestamp <= care_scores[i].timestamp}

\* the care_score_id a check request may carry: none, a stored id, an unknown id
CareScoreIds == {None, Some(1), Some(3), Some(9)}
\* AcknowledgeRequest.action is any str: the three documented actions and one
\* that is none of them
Actions == {"dismissed", "scheduled", "contacted", "snoozed"}

----------------------------------------------------------------------------
(* POST /escalation/check *)

\* the frame of a request that is not running
Idle == [pc |-> "idle", user_id |-> 0, care_score_id |-> 0, level |-> 0]
Workers == {1, 2}

\* the handler run to completion: the CareScore lookup, check_escalation's
\* level and cooldown query, and _create_escalation's add and commit
check_escalation(user_id, care_score_id) ==
    /\ user_id \in Users
    /\ \/ \* no CareScore found
          /\ lookup_care_score(user_id, care_score_id) = {}
          /\ ret' = Response("check", 404, 0)
          /\ UNCHANGED escalations
       \/ \E cs \in lookup_care_score(user_id, care_score_id) :
            \E level \in {determine_level(care_scores[cs].care_score)} :
              IF level = 0 \/ has_recent_escalation(escalations, user_id, level, now)
              THEN /\ ret' = Response("check", 200, 0)
                   /\ UNCHANGED escalations
              ELSE /\ Len(escalations) < MaxEscalations
                   /\ escalations' =
                        Append(escalations, EscalationRow(user_id, cs, level, now))
                   /\ ret' = Response("check", 200, 1)
    /\ UNCHANGED <<now, baseline_hr, health, care_scores, calc, reqs, readings, report,
                   api_keys, connections>>

\* the same handler on worker w of the thread pool, up to the cooldown query:
\* it answers at once, or goes on to _create_escalation
begin_check(w, user_id, care_score_id) ==
    /\ user_id \in Users
    /\ reqs[w].pc = "idle"
    /\ \/ /\ lookup_care_score(user_id, care_score_id) = {}
          /\ ret' = Response("check", 404, 0)
          /\ UNCHANGED reqs
       \/ \E cs \in lookup_care_score(user_id, care_score_id) :
            \E level \in {determine_level(care_scores[cs].care_score)} :
              IF level = 0 \/ has_recent_escalation(escalations, user_id, level, now)
              THEN /\ ret' = Response("check", 200, 0)
                   /\ UNCHANGED reqs
              ELSE /\ reqs' = [reqs EXCEPT ![w] =
                                 [pc |-> "create", user_id |-> user_id,
                                  care_score_id |-> cs, level |-> level]]
                   /\ UNCHANGED ret
    /\ UNCHANGED <<now, baseline_hr, health, care_scores, escalations, calc, readings,
                   report, api_keys, connections>>

\* worker w's _create_escalation: db.add, db.commit, and the response
commit_escalation(w) ==
    /\ reqs[w].pc = "create"
    /\ Len(escalations) < MaxEscalations
    /\ escalations' =
         Append(escalations,
                EscalationRow(reqs[w].user_id, reqs[w].care_score_id,
                              reqs[w].level, now))
    /\ reqs' = [reqs EXCEPT ![w] = Idle]
    /\ ret' = Response("check", 200, 1)
    /\ UNCHANGED <<now, baseline_hr, health, care_scores, calc, readings, report,
                   api_keys, connections>>

(* POST /escalation/{escalation_id}/acknowledge *)

\* an acknowledge that keeps the first action of an acknowledged row
acknowledged_row_keep_first(row, action) ==
    IF row.acknowledged = 1 THEN row
    ELSE [row EXCEPT !.acknowledged = 1, !.action_taken = Some(action)]

\* an acknowledge that also stamps the row with the time of the update
acknowledged_row_restamped(row, action) ==
    [row EXCEPT !.acknowledged = 1, !.action_taken = Some(action),
                !.timestamp = now]

\* escalation.acknowledged = 1; escalation.action_taken = action
acknowledged_row(row, action) ==
    [row EXCEPT !.acknowledged = 1, !.action_taken = Some(action)]

\* the query with its filter on Escalation.id dropped
find_escalation_unfiltered(escalation_id) ==
    {i \in DOMAIN escalations : i = 1}

\* db.query(Escalation).filter(Escalation.id == escalation_id).first()
find_escalation(escalation_id) ==
    {i \in DOMAIN escalations : i = escalation_id}

acknowledge_escalation(escalation_id, action) ==
    /\ \/ \* `if not escalation: return False`; the route raises 404
          /\ find_escalation(escalation_id) = {}
          /\ ret' = Response("acknowledge", 404, 0)
          /\ UNCHANGED escalations
       \/ \E i \in find_escalation(escalation_id) :
            /\ escalations' =
                 [escalations EXCEPT ![i] = acknowledged_row(@, action)]
            /\ ret' = Response("acknowledge", 200, 1)
    /\ UNCHANGED <<now, baseline_hr, health, care_scores, calc, reqs, readings, report,
                   api_keys, connections>>

\* the wall clock moves
Tick(d) ==
    /\ now + d <= MaxTime
    /\ now' = now + d
    /\ UNCHANGED <<baseline_hr, health, care_scores, escalations, calc, reqs, ret,
                   readings, report, api_keys, connections>>

----------------------------------------------------------------------------
(* POST /webhook/ingest-and-analyze *)

\* a bound on the CareScores the analysis requests of one run store
MaxAnalyses == 2

\* X-API-Key: missing, or some key
ApiKeys == {None, Some(1)}

\* validate_api_key: the key is not compared with anything; any active user
\* may be the row that .first() returns
validate_api_key(api_key) == IF api_key = None THEN {} ELSE Users

\* the records of a payload, normalised: none, or one heart-rate reading
IngestPayloads ==
    {None, Some(HealthRow(Some(126), None, None, <<None, None>>, None, None))}

\* the four components (severity, persistence, cross-signal, manual) of the
\* snapshots the engine yields: nothing deviating, 35 + 20 + 15 + 0, and the
\* four maxima
EngineComponents ==
    { <<0, 0, 0, 0>>, <<3500, 2000, 1500, 0>>, <<4000, 2500, 2000, 1000>> }

\* CareScoreEngine.compute_carescore: the snapshot of the four components,
\* summed, clamped to [0,100] and banded, as a committed CareScore row
compute_carescore(user_id, c, timestamp) ==
    LET composite == Min(100 * 100, Max(0, c[1] + c[2] + c[3] + c[4]))
    IN  [user_id |-> user_id,
         timestamp |-> timestamp,
         care_score |-> composite,
         severity_score |-> c[1],
         persistence_score |-> c[2],
         cross_signal_score |-> c[3],
         manual_modifier |-> c[4],
         drift_score |-> 0,
         confidence_score |-> 70 * 100,
         stability_score |-> 100 * 100 - composite,
         explanation |-> "template",
         status |-> lower(status_band(composite, 100))]

\* the handler on worker w up to the return of compute_carescore: the key
\* check, the commit of the payload's records, the latest reading, and the
\* engine's CareScore
ingest_and_analyze(w, api_key, payload, c) ==
    /\ reqs[w].pc = "idle"
    /\ \/ \* missing or invalid key
          /\ validate_api_key(api_key) = {}
          /\ ret' = Response("ingest", 401, 0)
          /\ UNCHANGED <<health, care_scores, reqs>>
       \/ \E user_id \in validate_api_key(api_key) :
            /\ health' = IF payload = None THEN health
                         ELSE [health EXCEPT ![user_id] = payload]
            /\ IF health'[user_id] = None
               THEN \* "Data stored, insufficient data for analysis"
                    /\ ret' = Response("ingest", 200, 0)
                    /\ UNCHANGED <<care_scores, reqs>>
               ELSE /\ Len(care_scores) < MaxAnalyses
                    /\ care_scores' =
                         Append(care_scores, compute_carescore(user_id, c, now))
                    /\ reqs' = [reqs EXCEPT ![w] =
                                 [pc |-> "scored", user_id |-> user_id,
                                  care_score_id |-> Len(care_scores) + 1,
                                  level |-> 0]]
                    /\ UNCHANGED ret
    /\ UNCHANGED <<now, baseline_hr, escalations, calc, readings, report, api_keys,
                   connections>>

\* escalation_service.check_escalation(user.id, care_score) up to the
\* cooldown query
ingest_check(w) ==
    /\ reqs[w].pc = "scored"
    /\ \E level \in {determine_level(care_scores[reqs[w].care_score_id].care_score)} :
          IF level = 0
             \/ has_recent_escalation(escalations, reqs[w].user_id, level, now)
          THEN /\ reqs' = [reqs EXCEPT ![w] = Idle]
               /\ ret' = Response("ingest", 200, 0)
          ELSE /\ reqs' = [reqs EXCEPT ![w].pc = "ingest_create", ![w].level = level]
               /\ UNCHANGED ret
    /\ UNCHANGED <<now, baseline_hr, health, care_scores, escalations, calc, readings,
                   report, api_keys, connections>>

\* _create_escalation within the webhook request, and the response
ingest_create(w) ==
    /\ reqs[w].pc = "ingest_create"
    /\ Len(escalations) < MaxEscalations
    /\ escalations' =
         Append(escalations,
                EscalationRow(reqs[w].user_id, reqs[w].care_score_id,
                              reqs[w].level, now))
    /\ reqs' = [reqs EXCEPT ![w] = Idle]
    /\ ret' = Response("ingest", 200, 1)
    /\ UNCHANGED <<now, baseline_hr, health, care_scores, calc, readings, report,
                   api_keys, connections>>

\* the request fails or is cancelled after the engine's commit and before
\* the escalation's: `except Exception` answers "Analysis failed", nothing
\* is rolled back
ingest_fail(w) ==
    /\ reqs[w].pc \in {"scored", "ingest_create"}
    /\ reqs' = [reqs EXCEPT ![w] = Idle]
    /\ ret' = Response("ingest_error", 200, 0)
    /\ UNCHANGED <<now, baseline_hr, health, care_scores, escalations, calc, readings,
                   report, api_keys, connections>>

----------------------------------------------------------------------------
(* AnomalyDetector (services/anomaly_detector.py)                           *)
(*                                                                          *)
(* Readings are whole numbers.  A statistic of a baseline (median, q1, q3,  *)
(* iqr) is kept as a count of quarters, which is exact: numpy's median of   *)
(* an even number of values is a half, and its linearly interpolated 25th   *)
(* and 75th percentiles fall on quarters between two neighbours.  A         *)
(* modified z-score is a rational num / den with den > 0.                   *)

\* a bound on the HealthData rows of the table
MaxReadings == 6

\* a HealthData row
Reading(user_id, timestamp, data) ==
    [user_id |-> user_id, timestamp |-> timestamp, data |-> data]

\* SIGNALS + MANUAL_SIGNALS, those that HealthRow carries
DetectorSignals ==
    {"heart_rate", "hrv", "sleep_duration", "activity_level",
     "bp_systolic", "bp_diastolic", "blood_sugar"}

\* the query of learn_baseline: the user's rows not older than `days` days
window_rows(user_id, days, t) ==
    SelectSeq(readings,
              LAMBDA r : r.user_id = user_id /\ r.timestamp >= t - 24 * days)

\* [getattr(d, signal) for d in data if getattr(d, signal) is not None]
signal_values(data, signal) ==
    LET present == SelectSeq(data, LAMBDA r : r.data[signal] # None)
    IN  [i \in 1..Len(present) |-> Val(present[i].data[signal])]

Sorted(values) == SortSeq(values, LAMBDA a, b : a < b)

\* np.median, in quarters
median4(values) ==
    LET s == Sorted(values)
        n == Len(s)
    IN  IF n % 2 = 1 THEN 4 * s[(n + 1) \div 2]
        ELSE 2 * (s[n \div 2] + s[n \div 2 + 1])

\* np.percentile(values, 25 * q) by linear interpolation, in quarters: the
\* position q * (n - 1) / 4 between the sorted values
percentile4(values, q) ==
    LET s == Sorted(values)
        pos4 == q * (Len(s) - 1)
        k == pos4 \div 4
        r == pos4 % 4
    IN  IF r = 0 THEN 4 * s[k + 1]
        ELSE 4 * s[k + 1] + r * (s[k + 2] - s[k + 1])

RECURSIVE Sum(_)
Sum(values) ==
    IF values = <<>> THEN 0 ELSE values[1] + Sum(Tail(values))

\* the statistics of one signal; mean is sum / n, std * std is var_num / (n * n)
Baseline(values) ==
    LET n == Len(values)
        squares == [i \in 1..n |-> values[i] * values[i]]
        q1 == percentile4(values, 1)
        q3 == percentile4(values, 3)
    IN  [median |-> median4(values),
         mean |-> [sum |-> Sum(values), n |-> n],
         variance |-> [num |-> n * Sum(squares) - Sum(values) * Sum(values),
                       den |-> n * n],
         q1 |-> q1,
         q3 |-> q3,
         iqr |-> q3 - q1]

\* a minimum of more than 5 values
has_minimum_data_strict(values) == Len(values) > 5

\* if len(values) >= 5:  # Minimum data requirement
has_minimum_data(values) == Len(values) >= 5

\* learn_baseline's result: one Baseline for every signal with enough values
\* in the window; the empty map when the window has no rows
learn_baseline(user_id, days, t) ==
    LET data == window_rows(user_id, days, t)
        learned == {signal \in DetectorSignals :
                       has_minimum_data(signal_values(data, signal))}
    IN  [signal \in learned |-> Baseline(signal_values(data, signal))]

\* _update_user_baselines, for the profile field the model keeps: the
\* heart-rate median becomes User.baseline_heart_rate (the heart-rate columns
\* of the readings table have whole medians, so the quarters divide exactly)
update_user_baselines_resetting(profile, user_id, baselines) ==
    IF user_id \in Users
    THEN [profile EXCEPT ![user_id] =
             IF "heart_rate" \in DOMAIN baselines
             THEN Some(baselines["heart_rate"].median \div 4) ELSE None]
    ELSE profile

update_user_baselines(profile, user_id, baselines) ==
    IF user_id \in Users /\ "heart_rate" \in DOMAIN baselines
    THEN [profile EXCEPT ![user_id] = Some(baselines["heart_rate"].median \div 4)]
    ELSE profile

\* TrainRequest.days: the default and the drift analysis' window
TrainDays == {14, 30}

(* POST /analysis/train *)
train_baseline(user_id, days) ==
    /\ \E baselines \in {learn_baseline(user_id, days, now)} :
          /\ baseline_hr' = update_user_baselines(baseline_hr, user_id, baselines)
          /\ report' = [op |-> "learn_baseline", user_id |-> user_id,
                        days |-> days, baselines |-> baselines]
          /\ ret' = IF DOMAIN baselines = {}
                    THEN Response("train", 400, 0)
                    ELSE Response("train", 200, 1)
    /\ UNCHANGED <<now, health, care_scores, escalations, calc, reqs, readings, api_keys,
                   connections>>

(* _calculate_modified_z_score and _get_severity *)

\* 0.6745 * 1.349 = 0.9099005 = ZNum / ZDen
ZNum == 1819801
ZDen == 2000000

\* num / den with the denominator made positive
Ratio(num, den) ==
    IF den < 0 THEN [num |-> -num, den |-> -den, raised |-> FALSE]
    ELSE [num |-> num, den |-> den, raised |-> FALSE]

\* the score without the guards: mad = iqr / 1.349 and a plain division by
\* it, which raises ZeroDivisionError when iqr is 0
calculate_modified_z_score_unguarded(value, median, iqr, unit) ==
    IF iqr = 0 THEN [num |-> 0, den |-> ZDen, raised |-> TRUE]
    ELSE Ratio(ZNum * (value - median), ZDen * iqr)

\* _calculate_modified_z_score; value, median and iqr count 1/unit-ths.
\* iqr == 0 is replaced by median * 0.1, or by 1 when median is 0;
\* modified_z = 0.6745 * (value - median) / mad if mad else 0
calculate_modified_z_score(value, median, iqr, unit) ==
    IF iqr # 0 THEN Ratio(ZNum * (value - median), ZDen * iqr)
    ELSE IF median # 0
         THEN Ratio(ZNum * (value - median), (ZDen \div 10) * median)
         ELSE Ratio(ZNum * (value - median), ZDen * unit)

\* the severity of the signed score: abs() forgotten
get_severity_signed(z) ==
    IF z.num >= 4 * z.den THEN "severe"
    ELSE IF z.num >= 3 * z.den THEN "moderate"
    ELSE IF z.num >= 2 * z.den THEN "mild"
    ELSE "normal"

\* _get_severity
get_severity(z) ==
    IF Abs(z.num) >= 4 * z.den THEN "severe"
    ELSE IF Abs(z.num) >= 3 * z.den THEN "moderate"
    ELSE IF Abs(z.num) >= 2 * z.den THEN "mild"
    ELSE "normal"

\* round(z_score, 2), in hundredths (every den above is a multiple of 100)
round2(z) ==
    LET d == z.den \div 100
        a == Abs(z.num)
        q == a \div d
        r == a % d
        h == IF 2 * r < d THEN q
             ELSE IF 2 * r > d THEN q + 1
             ELSE IF q % 2 = 0 THEN q ELSE q + 1
    IN  Sgn(z.num) * h

(* detect_anomalies *)

\* the loop body for one item of current_data that is not skipped
score_signal(signal, value, baseline) ==
    LET z == calculate_modified_z_score(4 * value, baseline.median, baseline.iqr, 4)
    IN  [signal |-> signal,
         current_value |-> value,
         baseline_median |-> baseline.median,
         z |-> z,
         z_score |-> round2(z),
         is_anomaly |-> Abs(z.num) >= 2 * z.den,
         severity |-> get_severity(z),
         direction |-> IF 4 * value > baseline.median THEN "high" ELSE "low"]

\* the dict an anomaly is appended as
anomaly_entry(scored) ==
    [signal |-> scored.signal,
     current_value |-> scored.current_value,
     baseline_median |-> scored.baseline_median,
     z_score |-> scored.z_score,
     severity |-> scored.severity,
     direction |-> scored.direction]

\* the first severity of the list that is present decides
overall_risk_first_entry(anomalies) ==
    IF anomalies = <<>> THEN "normal"
    ELSE IF anomalies[1].severity = "severe" THEN "high"
    ELSE IF anomalies[1].severity = "moderate" THEN "moderate"
    ELSE "mild"

\* overall_risk of the anomaly list
overall_risk(anomalies) ==
    IF anomalies = <<>> THEN "normal"
    ELSE IF \E i \in DOMAIN anomalies : anomalies[i].severity = "severe" THEN "high"
    ELSE IF \E i \in DOMAIN anomalies : anomalies[i].severity = "moderate"
         THEN "moderate"
    ELSE "mild"

\* a detector that scores against an empty baseline map
has_baselines_always(baselines) == TRUE

\* `if not baselines` is false
has_baselines(baselines) == DOMAIN baselines # {}

\* the loop skips only the signals without a baseline
is_skipped_without_baseline(item, baselines) == item[1] \notin DOMAIN baselines

\* if value is None or signal not in baselines: continue
is_skipped(item, baselines) ==
    item[2] = None \/ item[1] \notin DOMAIN baselines

\* the loop body reached with value None: `value - median` raises TypeError
score_missing(signal, baseline) ==
    [signal |-> signal,
     current_value |-> 0,
     baseline_median |-> baseline.median,
     z |-> [num |-> 0, den |-> ZDen, raised |-> TRUE],
     z_score |-> 0,
     is_anomaly |-> FALSE,
     severity |-> "normal",
     direction |-> "low"]

\* detect_anomalies over current_data, a sequence of <<signal, value>> items,
\* with the baselines learn_baseline returned.  `scored` keeps the locals of
\* the loop for every item that was not skipped.
detect_anomalies(current_data, baselines) ==
    IF ~has_baselines(baselines)
    THEN [has_anomaly |-> FALSE,
          anomalies |-> <<>>,
          overall_risk |-> "unknown",
          message |-> "Insufficient baseline data for analysis",
          scored |-> <<>>,
          raised |-> FALSE]
    ELSE LET items == SelectSeq(current_data,
                         LAMBDA item : ~is_skipped(item, baselines))
             scored == [i \in 1..Len(items) |->
                          IF items[i][2] = None
                          THEN score_missing(items[i][1], baselines[items[i][1]])
                          ELSE score_signal(items[i][1], Val(items[i][2]),
                                            baselines[items[i][1]])]
             found == SelectSeq(scored, LAMBDA x : x.is_anomaly)
             anomalies == [i \in 1..Len(found) |-> anomaly_entry(found[i])]
         IN  [has_anomaly |-> Len(anomalies) > 0,
              anomalies |-> anomalies,
              overall_risk |-> overall_risk(anomalies),
              message |-> "",
              scored |-> scored,
              raised |-> \E i \in DOMAIN scored : scored[i].z.raised]

(* analyze_drift *)

\* SIGNALS, those that HealthRow carries
DriftSignals == {"heart_rate", "hrv", "sleep_duration", "activity_level"}

\* the query of analyze_drift: the user's rows of the last window_days days,
\* ordered by timestamp
drift_rows(user_id, window_days, t) ==
    SortSeq(window_rows(user_id, window_days, t),
            LAMBDA a, b : a.timestamp < b.timestamp)

\* values[-3:]
last3(values) == SubSeq(values, Len(values) - 2, Len(values))

\* the sign of np.polyfit(range(n), values, 1)[0]: the least-squares slope
\* has the sign of n * sum(i * v_i) - sum(i) * sum(v_i), i from 0
slope_sign(values) ==
    LET n == Len(values)
        iv == [i \in 1..n |-> (i - 1) * values[i]]
        idx == [i \in 1..n |-> i - 1]
    IN  Sgn(n * Sum(iv) - Sum(idx) * Sum(values))

\* the loop body of analyze_drift for a signal that is not skipped; the mean
\* of three values and the baseline are counted in twelfths
drift_signal(signal, values, baseline) ==
    LET z == calculate_modified_z_score(4 * Sum(last3(values)), 3 * baseline.median,
                                        3 * baseline.iqr, 12)
    IN  [signal |-> signal,
         recent_average |-> [sum |-> Sum(last3(values)), n |-> 3],
         baseline |-> baseline.median,
         z |-> z,
         deviation |-> round2(z),
         is_drift |-> 2 * Abs(z.num) >= 3 * z.den,
         trend |-> IF Len(values) >= 5
                   THEN IF slope_sign(values) > 0 THEN "increasing" ELSE "decreasing"
                   ELSE "unknown",
         sustained |-> Len(values) >= 5]

\* analyze_drift with the baselines learn_baseline(user_id, days=30) returned
analyze_drift(data, baselines) ==
    IF Len(data) < 3
    THEN [has_drift |-> FALSE, drift_signals |-> {},
          message |-> "Insufficient recent data for drift analysis"]
    ELSE LET checked == {signal \in DriftSignals \cap DOMAIN baselines :
                            Len(signal_values(data, signal)) >= 3}
             drifting == {signal \in checked :
                            drift_signal(signal, signal_values(data, signal),
                                         baselines[signal]).is_drift}
         IN  [has_drift |-> drifting # {},
              drift_signals |->
                 {drift_signal(signal, signal_values(data, signal), baselines[signal]) :
                     signal \in drifting},
              message |-> ""]

(* POST /analysis/analyze *)

\* the keys of the current_data the route builds from a row, in its order
RowSignals ==
    <<"heart_rate", "hrv", "sleep_duration", "activity_level",
      "bp_systolic", "bp_diastolic", "blood_sugar">>

row_items(data) == [i \in DOMAIN RowSignals |-> <<RowSignals[i], data[RowSignals[i]]>>]

\* the user's rows that .order_by(timestamp.desc()).first() may return
latest_readings(user_id) ==
    {i \in DOMAIN readings :
        /\ readings[i].user_id = user_id
        /\ \A j \in DOMAIN readings :
              readings[j].user_id = user_id
                => readings[j].timestamp <= readings[i].timestamp}

\* the current values a client may send for heart_rate and activity_level
\* (None: the key is not sent)
CurrentHeartRates == {None, Some(56), Some(72), Some(96), Some(104)}
CurrentActivityLevels == {None, Some(0), Some(3), Some(4), Some(5)}

\* AnalyzeRequest.user_id: the user with readings and a user without any
AnalyzeUserIds == {1, 2}

\* AnalyzeRequest.current_data: a dict of floats
client_items(hr, act) ==
    (IF hr = None THEN <<>> ELSE << <<"heart_rate", hr>> >>)
    \o (IF act = None THEN <<>> ELSE << <<"activity_level", act>> >>)

\* detect_anomalies, then analyze_drift, each with its own learn_baseline
\* and profile update
analyze_items(user_id, items) ==
    \E b14 \in {learn_baseline(user_id, 14, now)} :
    \E anomaly \in {detect_anomalies(items, b14)} :
        IF anomaly.raised
        THEN \* the exception leaves the handler: 500, after the first commit
             /\ baseline_hr' = update_user_baselines(baseline_hr, user_id, b14)
             /\ ret' = Response("analyze", 500, 0)
             /\ UNCHANGED report
        ELSE \E data \in {drift_rows(user_id, 7, now)} :
             \E b30 \in {IF Len(data) < 3 THEN b14
                         ELSE learn_baseline(user_id, 30, now)} :
               /\ baseline_hr' =
                    IF Len(data) < 3
                    THEN update_user_baselines(baseline_hr, user_id, b14)
                    ELSE update_user_baselines(
                            update_user_baselines(baseline_hr, user_id, b14),
                            user_id, b30)
               /\ report' = [op |-> "analyze", user_id |-> user_id,
                             current_data |-> items, baselines |-> b14,
                             anomaly |-> anomaly,
                             drift |-> analyze_drift(data, b30)]
               /\ ret' = Response("analyze", 200, IF anomaly.has_anomaly THEN 1 ELSE 0)

analyze_health(user_id, hr, act) ==
    /\ IF client_items(hr, act) = <<>>
       THEN \* `if not request.current_data`: the latest reading is used
            \/ /\ latest_readings(user_id) = {}
               /\ ret' = Response("analyze", 404, 0)
               /\ UNCHANGED <<baseline_hr, report>>
            \/ \E i \in latest_readings(user_id) :
                  analyze_items(user_id, row_items(readings[i].data))
       ELSE analyze_items(user_id, client_items(hr, act))
    /\ UNCHANGED <<now, health, care_scores, escalations, calc, reqs, readings, api_keys,
                   connections>>

\* the scores _get_severity is asked about, in hundredths: around and on
\* each threshold, on both sides of 0
SeverityScores ==
    {0, 199, 200, 299, 300, 399, 400, -199, -200, -300, -400}

\* _get_severity(z_score) for a score of the set
severity_of(h) ==
    /\ report' = [op |-> "get_severity", z |-> Ratio(h, 100),
                  severity |-> get_severity(Ratio(h, 100))]
    /\ UNCHANGED <<now, baseline_hr, health, care_scores, escalations, calc,
                   reqs, ret, readings, api_keys, connections>>

----------------------------------------------------------------------------
(* API keys (services/auth_service.py, routes/auth.py) and the ingest       *)
(* webhook (routes/webhook.py)                                              *)

\* a bound on the rows of the api_keys table
MaxApiKeys == 2

\* raw_key = f"pulseai_{user_id}_{secrets.token_urlsafe(32)}": the prefix, the
\* text between the first two underscores, and the random rest
RawKey(user_part, token) ==
    [prefix |-> "pulseai", user |-> user_part, token |-> token]

\* the empty header value, and a key that does not start with "pulseai_"
EmptyKey == [prefix |-> "", user |-> 0, token |-> 0]
ForeignKey == [prefix |-> "other", user |-> 0, token |-> 0]

\* the X-API-Key values a caller may present: every key generate_api_key can
\* hand out, keys of that shape that name no user, a foreign key, nothing
PresentedKeys ==
    {RawKey(u, t) : u \in RequestUserIds, t \in 1..MaxApiKeys}
    \cup {ForeignKey, EmptyKey}

\* hashlib.sha256(raw_key.encode()).hexdigest(): one digest per key
sha256(raw_key) == <<"sha256", raw_key>>

\* GenerateAPIKeyRequest.expires_in_days
ExpiresInDays == {None, Some(1)}

\* the APIKey(...) row of generate_api_key
APIKeyRow(user_id, raw_key, expires_in_days, t) ==
    [user_id |-> user_id,
     key |-> sha256(raw_key),
     expires_at |-> IF Truthy(expires_in_days)
                    THEN Some(t + 24 * Val(expires_in_days)) ELSE None,
     is_active |-> TRUE,
     last_used_at |-> None,
     request_count |-> 0]

(* POST /auth/api-keys/generate; the random part of the key is the number   *)
(* of the row                                                               *)
generate_api_key(user_id, expires_in_days) ==
    /\ Len(api_keys) < MaxApiKeys
    /\ IF user_id \notin Users
       THEN \* ValueError("User not found") -> 404
            /\ ret' = Response("generate", 404, 0)
            /\ UNCHANGED api_keys
       ELSE /\ api_keys' =
                 Append(api_keys,
                        APIKeyRow(user_id, RawKey(user_id, Len(api_keys) + 1),
                                  expires_in_days, now))
            /\ ret' = Response("generate", 200, Len(api_keys) + 1)
    /\ UNCHANGED <<now, baseline_hr, health, care_scores, escalations, calc, reqs,
                   readings, report, connections>>

(* DELETE /auth/api-keys/{key_id} *)
revoke_api_key(key_id) ==
    /\ IF key_id \notin DOMAIN api_keys
       THEN /\ ret' = Response("revoke", 404, 0)
            /\ UNCHANGED api_keys
       ELSE /\ api_keys' = [api_keys EXCEPT ![key_id].is_active = FALSE]
            /\ ret' = Response("revoke", 200, 1)
    /\ UNCHANGED <<now, baseline_hr, health, care_scores, escalations, calc, reqs,
                   readings, report, connections>>

\* "For development/demo": a key that starts with "pulseai_" and names an
\* active user between its first two underscores is that user's
demo_user(raw_key) ==
    IF raw_key.prefix = "pulseai" /\ raw_key.user \in Users
    THEN Some(raw_key.user) ELSE None

\* the active APIKey rows with the digest of the key
stored_keys(raw_key) ==
    {i \in DOMAIN api_keys :
        api_keys[i].key = sha256(raw_key) /\ api_keys[i].is_active}

\* AuthService.validate_api_key: the user it returns and the api_keys table
\* it leaves
auth_validate_api_key(raw_key) ==
    IF raw_key = EmptyKey
    THEN [user |-> None, api_keys |-> api_keys]
    ELSE IF demo_user(raw_key) # None
    THEN [user |-> demo_user(raw_key), api_keys |-> api_keys]
    ELSE IF stored_keys(raw_key) = {}
    THEN [user |-> None, api_keys |-> api_keys]
    ELSE LET i == CHOOSE i \in stored_keys(raw_key) : TRUE
         IN  IF api_keys[i].expires_at # None /\ Val(api_keys[i].expires_at) < now
             THEN [user |-> None, api_keys |-> api_keys]
             ELSE [user |-> IF api_keys[i].user_id \in Users
                            THEN Some(api_keys[i].user_id) ELSE None,
                   api_keys |-> [api_keys EXCEPT ![i].last_used_at = Some(now),
                                                 ![i].request_count = @ + 1]]

(* GET /auth/validate *)
validate_key(raw_key) ==
    /\ \E result \in {auth_validate_api_key(raw_key)} :
          /\ api_keys' = result.api_keys
          /\ ret' = IF result.user = None
                    THEN Response("validate", 401, 0)
                    ELSE Response("validate", 200, Val(result.user))
    /\ UNCHANGED <<now, baseline_hr, health, care_scores, escalations, calc, reqs,
                   readings, report, connections>>

(* POST /webhook/ingest: the payload's records, normalised, are stored under *)
(* the user validate_api_key returns                                        *)
ingest_webhook(raw_key, payload) ==
    /\ IF raw_key = EmptyKey \/ validate_api_key(Some(raw_key)) = {}
       THEN \* "Missing API key" / "Invalid API key"
            /\ ret' = Response("ingest_webhook", 401, 0)
            /\ UNCHANGED health
       ELSE \E user_id \in validate_api_key(Some(raw_key)) :
               IF payload = None
               THEN \* "No actionable data in payload"
                    /\ ret' = Response("ingest_webhook", 200, 0)
                    /\ UNCHANGED health
               ELSE /\ health' = [health EXCEPT ![user_id] = payload]
                    /\ ret' = Response("ingest_webhook", 200, user_id)
    /\ UNCHANGED <<now, baseline_hr, care_scores, escalations, calc, reqs,
                   readings, report, api_keys, connections>>

----------------------------------------------------------------------------
(* Care-team connections (routers/patients.py)                              *)

\* a bound on the rows of the patient_doctors table
MaxConnections == 2

\* the users with role "doctor"
ConnDoctors == {2}

ConnectionTypes == {"doctor", "caretaker"}

\* PatientDoctor(patient_id=..., doctor_id=..., status="pending")
PatientDoctor(patient_id, doctor_id) ==
    [patient_id |-> patient_id, doctor_id |-> doctor_id, status |-> "pending"]

\* the rows of a table between a patient and a doctor or caretaker
connection_rows(rows, patient_id, target_id) ==
    {i \in DOMAIN rows :
        rows[i].patient_id = patient_id /\ rows[i].doctor_id = target_id}

\* db.delete(connection)
delete_row(rows, i) ==
    [j \in 1..(Len(rows) - 1) |-> IF j < i THEN rows[j] ELSE rows[j + 1]]

\* the frame of a connect-doctor request between its query and its commit
ConnectFrame(patient_id, doctor_id) ==
    [pc |-> "connect_commit", patient_id |-> patient_id, doctor_id |-> doctor_id]

\* db.commit() of a new row: the table's definition is not part of the
\* handlers; a second row of a pair is stored, or refused by a constraint
commit_outcomes(rows, row) ==
    IF connection_rows(rows, row.patient_id, row.doctor_id) = {}
    THEN {"stored"}
    ELSE {"stored", "integrity_error"}

(* POST /patients/connect-doctor/{patient_user_id}: the three queries *)
request_doctor_connection(w, patient_user_id, target_user_id) ==
    /\ reqs[w].pc = "idle"
    /\ IF patient_user_id \notin Users \/ target_user_id \notin ConnDoctors
       THEN \* "Patient not found" / "Doctor not found"
            /\ ret' = Response("connect", 404, 0)
            /\ UNCHANGED reqs
       ELSE IF connection_rows(connections.doctor, patient_user_id,
                               target_user_id) # {}
       THEN \* "Connection already exists"
            /\ ret' = Response("connect", 400, 0)
            /\ UNCHANGED reqs
       ELSE /\ reqs' = [reqs EXCEPT ![w] = ConnectFrame(patient_user_id,
                                                        target_user_id)]
            /\ UNCHANGED ret
    /\ UNCHANGED <<now, baseline_hr, health, care_scores, escalations, calc,
                   readings, report, api_keys, connections>>

(* db.add(connection); db.commit() of the request, and its response *)
connect_commit(w) ==
    /\ reqs[w].pc = "connect_commit"
    /\ Len(connections.doctor) < MaxConnections
    /\ \E row \in {PatientDoctor(reqs[w].patient_id, reqs[w].doctor_id)} :
       \E outcome \in commit_outcomes(connections.doctor, row) :
          IF outcome = "stored"
          THEN /\ connections' =
                    [connections EXCEPT !.doctor = Append(@, row)]
               /\ ret' = Response("connect", 200, 1)
          ELSE /\ ret' = Response("connect", 500, 0)
               /\ UNCHANGED connections
    /\ reqs' = [reqs EXCEPT ![w] = Idle]
    /\ UNCHANGED <<now, baseline_hr, health, care_scores, escalations, calc,
                   readings, report, api_keys>>

\* the pending rows accept_connection's query matches
pending_rows(user_id, target_user_id, connection_type) ==
    LET rows == connections[connection_type]
    IN  {i \in connection_rows(rows, target_user_id, user_id) :
            rows[i].status = "pending"}

(* POST /patients/accept-connection/{user_id} *)
accept_connection(user_id, target_user_id, connection_type) ==
    /\ IF pending_rows(user_id, target_user_id, connection_type) = {}
       THEN \* "Connection request not found"
            /\ ret' = Response("accept", 404, 0)
            /\ UNCHANGED connections
       ELSE \E i \in pending_rows(user_id, target_user_id, connection_type) :
               /\ connections' =
                    [connections EXCEPT ![connection_type][i].status = "accepted"]
               /\ ret' = Response("accept", 200, 1)
    /\ UNCHANGED <<now, baseline_hr, health, care_scores, escalations, calc, reqs,
                   readings, report, api_keys>>

(* DELETE /patients/remove-connection/{patient_user_id} *)
remove_connection(patient_user_id, target_user_id, connection_type) ==
    /\ \E found \in {connection_rows(connections[connection_type],
                                      patient_user_id, target_user_id)} :
          IF found = {}
          THEN \* "Connection not found"
               /\ ret' = Response("remove", 404, 0)
               /\ UNCHANGED connections
          ELSE \E i \in found :
                  /\ connections' =
                       [connections EXCEPT ![connection_type] = delete_row(@, i)]
                  /\ ret' = Response("remove", 200, 1)
    /\ UNCHANGED <<now, baseline_hr, health, care_scores, escalations, calc, reqs,
                   readings, report, api_keys>>

----------------------------------------------------------------------------
(* The escalation service over a database that already holds CareScores,   *)
(* each one a row the composer stores for some reading.                    *)

StoredScore(user_id, h, b, timestamp) ==
    CareScoreRow(user_id, calculate_simple_care_score(h, b), "none", timestamp)

\* scores 30.5 (mild) and 31 for user 1, 70.5 (high) and 71 for user 2
SeedCareScores ==
    << StoredScore(1, HealthRow(Some(54), Some(25), Some(5), <<None, None>>, None, None),
                   None, -4),
       StoredScore(1, HealthRow(Some(126), None, Some(5), <<None, None>>, Some(150), None),
                   None, -3),
       StoredScore(2, HealthRow(Some(54), Some(25), Some(5), <<Some(185), Some(80)>>,
                               Some(210), Some(0)),
                   None, -2),
       StoredScore(2, HealthRow(Some(126), Some(25), Some(5), <<Some(185), Some(80)>>,
                               Some(210), Some(0)),
                   Some(100), -1) >>

Init ==
    /\ now = 0
    /\ baseline_hr = [u \in Users |-> None]
    /\ health = [u \in Users |-> None]
    /\ care_scores = SeedCareScores
    /\ escalations = <<>>
    /\ calc = NoCalc
    /\ reqs = [w \in Workers |-> Idle]
    /\ ret = Response("init", 0, 0)
    /\ readings = <<>>
    /\ report = NoReport
    /\ api_keys = <<>>
    /\ connections = NoConnections

\* requests served one at a time; acknowledgements use the default action
Next ==
    \/ \E d \in TickSteps : Tick(d)
    \/ \E user_id \in Users, care_score_id \in CareScoreIds :
          check_escalation(user_id, care_score_id)
    \/ \E escalation_id \in 1..(MaxEscalations + 1) :
          acknowledge_escalation(escalation_id, "dismissed")

Spec == Init /\ [][Next]_vars

\* acknowledgements with every action, the clock standing still
AckNext ==
    \/ \E user_id \in Users, care_score_id \in CareScoreIds :
          check_escalation(user_id, care_score_id)
    \/ \E escalation_id \in 1..(MaxEscalations + 1), action \in Actions :
          acknowledge_escalation(escalation_id, action)

AckSpec == Init /\ [][AckNext]_vars

\* two check requests in flight at once, each on its own worker and session
ConcNext ==
    \/ \E d \in TickSteps : Tick(d)
    \/ \E w \in Workers, user_id \in Users, care_score_id \in CareScoreIds :
          begin_check(w, user_id, care_score_id)
    \/ \E w \in Workers : commit_escalation(w)

ConcSpec == Init /\ [][ConcNext]_vars

\* analysis requests of the webhook beside check requests of the escalation
\* route, on an empty database, the clock standing still
IngestInit ==
    /\ now = 0
    /\ baseline_hr = [u \in Users |-> None]
    /\ health = [u \in Users |-> None]
    /\ care_scores = <<>>
    /\ escalations = <<>>
    /\ calc = NoCalc
    /\ reqs = [w \in Workers |-> Idle]
    /\ ret = Response("init", 0, 0)
    /\ readings = <<>>
    /\ report = NoReport
    /\ api_keys = <<>>
    /\ connections = NoConnections

\* the worker the analysis requests run on, one at a time
IngestWorkers == {1}

IngestNext ==
    \/ \E w \in IngestWorkers, api_key \in ApiKeys, payload \in IngestPayloads,
          c \in EngineComponents : ingest_and_analyze(w, api_key, payload, c)
    \/ \E w \in IngestWorkers : ingest_check(w)
    \/ \E w \in IngestWorkers : ingest_create(w)
    \/ \E w \in IngestWorkers : ingest_fail(w)
    \/ \E user_id \in Users, care_score_id \in CareScoreIds :
          check_escalation(user_id, care_score_id)

IngestSpec == IngestInit /\ [][IngestNext]_vars

\* the columns of the heart_rate and activity_level readings, newest first:
\* a flat signal, a spread one, and a signal that is 0 throughout
FlatColumn == <<72, 72, 72, 72, 72, 72, 72, 72>>
SpreadColumn == <<72, 60, 84, 64, 80, 68, 76, 88>>
ZeroColumn == <<0, 0, 0, 0, 0, 0, 0, 0>>
HeartRateColumns == {FlatColumn, SpreadColumn}
ActivityColumns == {ZeroColumn}

\* heart rates and systolic pressures that left a steady level three
\* readings ago
FallingColumn == <<68, 60, 68, 70, 70, 70, 70, 70>>
RisingColumn == <<72, 80, 72, 70, 70, 70, 70, 70>>
SystolicColumn == <<122, 130, 122, 120, 120, 120, 120, 120>>
DriftingColumns == {FallingColumn, RisingColumn}

\* the first n values of a column, then no value
Column(values, n) ==
    [i \in 1..MaxReadings |-> IF i <= n THEN Some(values[i]) ELSE None]

\* HealthData.timestamp of row i: one row a day; with "stale" the last row
\* is 20 days old, with "tail" the rows after the fourth are 11 days old
\* and older, with "old" the rows after the third are 16 days old and older
AgeProfiles == {"fresh", "stale", "tail"}

reading_time(i, ages) ==
    IF ages = "stale" /\ i = MaxReadings THEN -24 * 20
    ELSE IF ages = "old" /\ i > 3 THEN -24 * (12 + i)
    ELSE IF ages = "tail" /\ i > 4 THEN -24 * (6 + i)
    ELSE -24 * i

\* the table: MaxReadings rows of user 1; user 2 has no row
ReadingsTable(hr, act, systolic, ages) ==
    [i \in 1..MaxReadings |->
        Reading(1, reading_time(i, ages),
                HealthRow(hr[i], None, None, <<systolic[i], None>>, None, act[i]))]

\* the tables the detector runs over: every length of a heart-rate column
\* beside an empty or full activity column, and the full drifting columns
\* with or without systolic readings, and the full heart-rate columns with
\* fewer than five rows in the last 14 days
ReadingsTables ==
    {ReadingsTable(Column(hr, n), Column(act, m), Column(SystolicColumn, 0), ages) :
        hr \in HeartRateColumns, act \in ActivityColumns,
        n \in 0..MaxReadings, m \in {0, MaxReadings}, ages \in {"fresh", "stale"}}
    \cup
    {ReadingsTable(Column(hr, MaxReadings), Column(ZeroColumn, 0),
                   Column(SystolicColumn, k), ages) :
        hr \in DriftingColumns, k \in {0, MaxReadings}, ages \in AgeProfiles}
    \cup
    {ReadingsTable(Column(hr, MaxReadings), Column(ZeroColumn, 0),
                   Column(SystolicColumn, 0), "old") :
        hr \in HeartRateColumns}

AnomalyInit ==
    /\ now = 0
    /\ baseline_hr = [u \in Users |-> None]
    /\ readings \in ReadingsTables
    /\ health = [u \in Users |-> IF u = 1 THEN Some(readings[1].data) ELSE None]
    /\ care_scores = <<>>
    /\ escalations = <<>>
    /\ calc = NoCalc
    /\ reqs = [w \in Workers |-> Idle]
    /\ ret = Response("init", 0, 0)
    /\ report = NoReport
    /\ api_keys = <<>>
    /\ connections = NoConnections

AnomalyNext ==
    \/ \E user_id \in RequestUserIds, days \in TrainDays :
          train_baseline(user_id, days)
    \/ \E user_id \in AnalyzeUserIds, hr \in CurrentHeartRates,
          act \in CurrentActivityLevels : analyze_health(user_id, hr, act)
    \/ \E h \in SeverityScores : severity_of(h)

AnomalySpec == AnomalyInit /\ [][AnomalyNext]_vars

\* the calls that learn baselines, over the same tables: training, and the
\* analysis of the latest reading or of a heart rate the client sends
ProfileNext ==
    \/ \E user_id \in RequestUserIds, days \in TrainDays :
          train_baseline(user_id, days)
    \/ \E user_id \in AnalyzeUserIds, hr \in {None, Some(72)} :
          analyze_health(user_id, hr, None)

ProfileSpec == AnomalyInit /\ [][ProfileNext]_vars

\* an empty database: no key, no connection, no request in flight
AuthInit ==
    /\ now = 0
    /\ baseline_hr = [u \in Users |-> None]
    /\ health = [u \in Users |-> None]
    /\ care_scores = <<>>
    /\ escalations = <<>>
    /\ calc = NoCalc
    /\ reqs = [w \in Workers |-> Idle]
    /\ ret = Response("init", 0, 0)
    /\ readings = <<>>
    /\ report = NoReport
    /\ api_keys = <<>>
    /\ connections = NoConnections

AuthNext ==
    \/ \E d \in TickSteps : Tick(d)
    \/ \E user_id \in RequestUserIds, expires_in_days \in ExpiresInDays :
          generate_api_key(user_id, expires_in_days)
    \/ \E key_id \in 1..(MaxApiKeys + 1) : revoke_api_key(key_id)
    \/ \E raw_key \in PresentedKeys : validate_key(raw_key)
    \/ \E raw_key \in PresentedKeys, payload \in IngestPayloads :
          ingest_webhook(raw_key, payload)

AuthSpec == AuthInit /\ [][AuthNext]_vars

\* connect, accept and remove requests, two connect requests in flight at
\* once
ConnNext ==
    \/ \E w \in Workers, patient_user_id \in RequestUserIds,
          target_user_id \in Users :
          request_doctor_connection(w, patient_user_id, target_user_id)
    \/ \E w \in Workers : connect_commit(w)
    \/ \E user_id \in Users, target_user_id \in Users,
          connection_type \in ConnectionTypes :
          accept_connection(user_id, target_user_id, connection_type)
    \/ \E patient_user_id \in Users, target_user_id \in Users,
          connection_type \in ConnectionTypes :
          remove_connection(patient_user_id, target_user_id, connection_type)

ConnSpec == AuthInit /\ [][ConnNext]_vars

\* the composer and the detector over a latest reading that lacks signals:
\* the older rows hold a heart rate, an activity level and a blood pressure
\* each, the newest row holds any subset of them
ActiveColumn == <<40, 40, 40, 40, 40, 40, 40, 40>>

LatestRows ==
    {HealthRow(hr, None, None, bp, None, act) :
        hr \in {None, Some(104)},
        bp \in {<<None, None>>, <<Some(150), None>>, <<Some(150), Some(95)>>},
        act \in {None, Some(0)}}

MissingTables ==
    {[i \in 1..MaxReadings |->
        Reading(1, -24 * i,
                IF i = 1 THEN latest
                ELSE HealthRow(Some(SpreadColumn[i]), None, None,
                               <<Some(SystolicColumn[i]), Some(80)>>, None,
                               Some(ActiveColumn[i])))] :
        latest \in LatestRows}

MissingInit ==
    /\ now = 0
    /\ baseline_hr = [u \in Users |-> None]
    /\ readings \in MissingTables
    /\ health = [u \in Users |-> IF u = 1 THEN Some(readings[1].data) ELSE None]
    /\ care_scores = <<>>
    /\ escalations = <<>>
    /\ calc = NoCalc
    /\ reqs = [w \in Workers |-> Idle]
    /\ ret = Response("init", 0, 0)
    /\ report = NoReport
    /\ api_keys = <<>>
    /\ connections = NoConnections

MissingNext ==
    \/ \E user_id \in AnalyzeUserIds : analyze_health(user_id, None, None)
    \/ \E user_id \in Users, response \in {"object", "timeout"} :
          calculate_care_score(user_id, get_gemini_analysis(response))

MissingSpec == MissingInit /\ [][MissingNext]_vars

\* the composer over every reading of the input sets, for user 1
ScoreInit ==
    /\ now = 0
    /\ \E b \in BaselineHeartRates : baseline_hr = [u \in Users |-> IF u = 1 THEN b ELSE None]
    /\ \E h \in HealthRows : health = [u \in Users |-> IF u = 1 THEN Some(h) ELSE None]
    /\ care_scores = <<>>
    /\ escalations = <<>>
    /\ calc = NoCalc
    /\ reqs = [w \in Workers |-> Idle]
    /\ ret = Response("init", 0, 0)
    /\ readings = <<>>
    /\ report = NoReport
    /\ api_keys = <<>>
    /\ connections = NoConnections

ScoreNext ==
    \E user_id \in RequestUserIds, response \in GeminiResponses :
        calculate_care_score(user_id, get_gemini_analysis(response))

ScoreSpec == ScoreInit /\ [][ScoreNext]_vars

----------------------------------------------------------------------------
(* Properties of the escalation service *)

SameKey(i, j) ==
    /\ escalations[i].user_id = escalations[j].user_id
    /\ escalations[i].level = escalations[j].level

RowsOf(user_id, level) ==
    {i \in DOMAIN escalations :
        escalations[i].user_id = user_id /\ escalations[i].level = level}

\* C1: with requests served one after another, no user has, at any level,
\* two unacknowledged escalations whose timestamps fit in one 24-hour window
\* (two timestamps fit in one window exactly when they differ by at most 24).
C1_OneUnacknowledgedPerWindow ==
    \A i, j \in DOMAIN escalations :
        ( /\ i # j
          /\ SameKey(i, j)
          /\ escalations[i].acknowledged = 0
          /\ escalations[j].acknowledged = 0 )
        => Abs(escalations[i].timestamp - escalations[j].timestamp) > 24

\* two unacknowledged escalations of one user at one level exist
C1_Witness ==
    \E i, j \in DOMAIN escalations :
        /\ i < j
        /\ SameKey(i, j)
        /\ escalations[i].acknowledged = 0
        /\ escalations[j].acknowledged = 0

C2_Step(user_id, care_score_id) ==
    \A cs \in lookup_care_score(user_id, care_score_id) :
        LET level == determine_level(care_scores[cs].care_score)
        IN  level # 0 =>
              /\ (\E i \in RowsOf(user_id, level) :
                        now - escalations[i].timestamp < 24)
                    => escalations' = escalations
              /\ (\A i \in RowsOf(user_id, level) :
                        now - escalations[i].timestamp >= 25)
                    => /\ Len(escalations') = Len(escalations) + 1
                       /\ SubSeq(escalations', 1, Len(escalations)) = escalations
                       /\ escalations'[Len(escalations')].user_id = user_id
                       /\ escalations'[Len(escalations')].level = level
                       /\ escalations'[Len(escalations')].timestamp = now

\* C2: a check call that yields level L for a user, made less than 24 hours
\* after an escalation of that user at L, creates nothing and changes no row
\* (so a suppressed call does not move the cooldown); a call made when every
\* such escalation is at least 25 hours old (or there is none) creates one.
C2_CooldownDedup ==
    [][\A user_id \in Users, care_score_id \in CareScoreIds :
          check_escalation(user_id, care_score_id)
            => C2_Step(user_id, care_score_id)]_vars

\* a second escalation was just created 25 hours after the first one
C2_Witness ==
    /\ ret = Response("check", 200, 1)
    /\ \E i \in DOMAIN escalations :
          /\ i < Len(escalations)
          /\ SameKey(i, Len(escalations))
          /\ escalations[Len(escalations)].timestamp = now
          /\ now - escalations[i].timestamp = 25

\* the rows of a user at a level that are at most 24 hours old, acknowledged
\* or not
CoolingRows(user_id, level) ==
    {i \in RowsOf(user_id, level) : now - escalations[i].timestamp <= 24}

C26_Step(user_id, care_score_id) ==
    \A cs \in lookup_care_score(user_id, care_score_id) :
        LET level == determine_level(care_scores[cs].care_score)
        IN  level # 0 =>
              /\ CoolingRows(user_id, level) # {}
                    => /\ escalations' = escalations
                       /\ ret' = Response("check", 200, 0)
              /\ CoolingRows(user_id, level) = {}
                    => /\ Len(escalations') = Len(escalations) + 1
                       /\ escalations'[Len(escalations')].user_id = user_id
                       /\ escalations'[Len(escalations')].level = level

\* C26: a check call that yields level L for a user is suppressed exactly
\* when the user has an escalation at L that is at most 24 hours old, whether
\* it was acknowledged or not; rows at other levels and rows of other users
\* suppress nothing.
C26_CooldownIgnoresAcknowledgment ==
    [][\A user_id \in Users, care_score_id \in CareScoreIds :
          check_escalation(user_id, care_score_id)
            => C26_Step(user_id, care_score_id)]_vars

\* a check was just suppressed while every escalation is acknowledged, and
\* escalations of both users, at different levels, are stored
C26_Witness ==
    /\ ret = Response("check", 200, 0)
    /\ Len(escalations) = 2
    /\ \A i \in DOMAIN escalations :
          /\ escalations[i].acknowledged = 1
          /\ now - escalations[i].timestamp <= 24
    /\ escalations[1].user_id # escalations[2].user_id
    /\ escalations[1].level # escalations[2].level

\* C3: also with check requests interleaved, no user gets two escalations at
\* one level whose timestamps fit in one 24-hour window.
C3_AtomicCheckAndCreate ==
    \A i, j \in DOMAIN escalations :
        (i # j /\ SameKey(i, j))
          => Abs(escalations[i].timestamp - escalations[j].timestamp) > 24

\* the level the thresholds 71 / 51 / 31 give a score (in hundredths)
LevelOfScore(score) ==
    IF score >= 7100 THEN 3
    ELSE IF score >= 5100 THEN 2
    ELSE IF score >= 3100 THEN 1
    ELSE 0

C10_AcknowledgeIdempotent ==
    /\ [][\A escalation_id \in DOMAIN escalations, action \in Actions :
            acknowledge_escalation(escalation_id, action)
              => /\ ret' = Response("acknowledge", 200, 1)
                 /\ escalations'[escalation_id].acknowledged = 1
                 /\ escalations'[escalation_id].action_taken = Some(action)]_vars
    /\ [][\A i \in DOMAIN escalations :
            escalations[i].acknowledged = 1
              => /\ i \in DOMAIN escalations'
                 /\ escalations'[i].acknowledged = 1]_vars

\* an escalation acknowledged as contacted, the last call an acknowledge
C10_Witness ==
    /\ ret = Response("acknowledge", 200, 1)
    /\ \E i \in DOMAIN escalations :
          /\ escalations[i].acknowledged = 1
          /\ escalations[i].action_taken = Some("contacted")

\* C11: acknowledging an escalation id that is not stored answers not-found
\* (404) and leaves every stored escalation as it was.
C11_AcknowledgeUnknownId ==
    [][\A escalation_id \in 0..(MaxEscalations + 1), action \in Actions :
          ( /\ escalation_id \notin DOMAIN escalations
            /\ acknowledge_escalation(escalation_id, action) )
          => /\ ret' = Response("acknowledge", 404, 0)
             /\ escalations' = escalations]_vars

\* an unknown id was just refused while an unacknowledged escalation is stored
C11_Witness ==
    /\ ret = Response("acknowledge", 404, 0)
    /\ \E i \in DOMAIN escalations : escalations[i].acknowledged = 0

\* an escalation row without its two acknowledgement fields
Frame(row) == [row EXCEPT !.acknowledged = 0, !.action_taken = None]

\* C12: no step removes an escalation or changes anything of a stored one but
\* acknowledged and action_taken; a check step (creating, suppressed by the
\* cooldown, or of level 0) leaves every stored escalation as it was; an
\* acknowledge step leaves every escalation but the targeted one as it was.
C12_MutatedOnlyByAcknowledge ==
    [][ /\ \A i \in DOMAIN escalations :
              /\ i \in DOMAIN escalations'
              /\ Frame(escalations'[i]) = Frame(escalations[i])
        /\ \A user_id \in Users, care_score_id \in CareScoreIds :
              check_escalation(user_id, care_score_id)
                => SubSeq(escalations', 1, Len(escalations)) = escalations
        /\ \A escalation_id \in 0..(MaxEscalations + 1), action \in Actions :
              acknowledge_escalation(escalation_id, action)
                => /\ Len(escalations') = Len(escalations)
                   /\ \A i \in DOMAIN escalations \ {escalation_id} :
                         escalations'[i] = escalations[i] ]_vars

\* an escalation created earlier was just acknowledged, another one is not
C12_Witness ==
    /\ ret = Response("acknowledge", 200, 1)
    /\ \E i, j \in DOMAIN escalations :
          /\ escalations[i].acknowledged = 1
          /\ escalations[i].timestamp < now
          /\ escalations[j].acknowledged = 0

\* the actions the Escalation model documents
DocumentedActions == {"dismissed", "scheduled", "contacted"}

\* C13: every escalation is unacknowledged with no action_taken, or
\* acknowledged with action_taken one of dismissed, scheduled, contacted.
C13_ActionTakenEnumerated ==
    \A i \in DOMAIN escalations :
        \/ /\ escalations[i].acknowledged = 0
           /\ escalations[i].action_taken = None
        \/ /\ escalations[i].acknowledged = 1
           /\ escalations[i].action_taken \in {Some(a) : a \in DocumentedActions}

C15_AnalysisWritesAtomic ==
    [][\A w \in IngestWorkers :
          (ingest_fail(w) /\ reqs[w].pc = "ingest_create") =>
             ( reqs[w].care_score_id \in DOMAIN care_scores'
               => \E i \in DOMAIN escalations' :
                     escalations'[i].care_score_id = reqs[w].care_score_id )]_vars

\* C25: every stored Escalation belongs to the user who owns the CareScore it
\* references.
C25_EscalationOwnsItsCareScore ==
    \A i \in DOMAIN escalations :
        escalations[i].care_score_id \in DOMAIN care_scores
          => care_scores[escalations[i].care_score_id].user_id = escalations[i].user_id

\* C23: a failure of the commit that stores the Escalation reaches the
\* caller as a failure: the response of the request is an error, never a
\* success.
C23_CommitFailurePropagates ==
    [][\A w \in IngestWorkers :
          (ingest_fail(w) /\ reqs[w].pc = "ingest_create") => ret'.code >= 500]_vars

----------------------------------------------------------------------------
(* Properties of the anomaly detector *)

\* how many rows of the user's window carry a value of the signal
ValuesInWindow(user_id, days, signal) ==
    Cardinality({i \in DOMAIN readings :
                    /\ readings[i].user_id = user_id
                    /\ readings[i].timestamp >= now - 24 * days
                    /\ readings[i].data[signal] # None})

\* C16: the map learn_baseline returns has an entry for a signal exactly when
\* the window holds at least 5 values of it (with 0 to 4 the signal is
\* absent), and it is the empty map when the window holds no reading.
C16_BaselineNeedsFiveValues ==
    report.op = "learn_baseline" =>
        /\ \A signal \in DetectorSignals :
              signal \in DOMAIN report.baselines
                <=> ValuesInWindow(report.user_id, report.days, signal) >= 5
        /\ DOMAIN report.baselines \subseteq DetectorSignals
        /\ (\A signal \in DetectorSignals :
               ValuesInWindow(report.user_id, report.days, signal) = 0)
             => report.baselines = <<>>

\* a baseline was learned from exactly 5 values of one signal while another
\* signal with values in the window got none
C16_Witness ==
    /\ report.op = "learn_baseline"
    /\ \E signal \in DetectorSignals :
          /\ ValuesInWindow(report.user_id, report.days, signal) = 5
          /\ signal \in DOMAIN report.baselines
    /\ \E signal \in DetectorSignals :
          /\ ValuesInWindow(report.user_id, report.days, signal) \in 1..4
          /\ signal \notin DOMAIN report.baselines

\* the band of abs(z) = a / den: below 2 normal, [2,3) mild, [3,4) moderate,
\* from 4 severe
SeverityBand(a, den) ==
    CASE a < 2 * den -> "normal"
      [] 2 * den <= a /\ a < 3 * den -> "mild"
      [] 3 * den <= a /\ a < 4 * den -> "moderate"
      [] 4 * den <= a -> "severe"

SeverityRank(severity) ==
    CASE severity = "normal" -> 0
      [] severity = "mild" -> 1
      [] severity = "moderate" -> 2
      [] severity = "severe" -> 3

\* the entries of the anomaly list for a signal
EntriesOf(signal) ==
    {i \in DOMAIN report.anomaly.anomalies :
        report.anomaly.anomalies[i].signal = signal}

\* C17: _get_severity gives the band of abs(z) with inclusive lower ends at 2,
\* 3 and 4, and never a lower severity for a larger abs(z); a scored signal
\* has an entry in the anomaly list exactly when abs(z) >= 2, and every entry
\* has the severity of its band, never normal, and direction high exactly
\* when the value exceeds the baseline median.
C17_SeverityBands ==
    /\ [](report.op = "get_severity" =>
            report.severity = SeverityBand(Abs(report.z.num), report.z.den))
    /\ [][(report.op = "get_severity" /\ report'.op = "get_severity"
           /\ Abs(report.z.num) <= Abs(report'.z.num))
             => SeverityRank(report.severity) <= SeverityRank(report'.severity)]_vars
    /\ [](report.op = "analyze" =>
            \A k \in DOMAIN report.anomaly.scored :
               LET s == report.anomaly.scored[k]
               IN  /\ Abs(s.z.num) < 2 * s.z.den <=> EntriesOf(s.signal) = {}
                   /\ \A i \in EntriesOf(s.signal) :
                        LET e == report.anomaly.anomalies[i]
                        IN  /\ e.severity = SeverityBand(Abs(s.z.num), s.z.den)
                            /\ e.severity \in {"mild", "moderate", "severe"}
                            /\ e.direction = "high"
                                 <=> 4 * s.current_value > s.baseline_median
                            /\ e.direction \in {"high", "low"})

\* a value below its baseline median is in the list while another scored
\* signal is not
C17_Witness ==
    /\ report.op = "analyze"
    /\ \E i \in DOMAIN report.anomaly.anomalies :
          /\ report.anomaly.anomalies[i].direction = "low"
          /\ report.anomaly.anomalies[i].severity = "mild"
    /\ \E k \in DOMAIN report.anomaly.scored :
          ~report.anomaly.scored[k].is_anomaly

\* the highest severity rank of the anomaly list, 0 when it is empty
WorstRank(anomalies) ==
    IF anomalies = <<>> THEN 0
    ELSE CHOOSE r \in 1..3 :
            /\ \E i \in DOMAIN anomalies : SeverityRank(anomalies[i].severity) = r
            /\ \A i \in DOMAIN anomalies : SeverityRank(anomalies[i].severity) <= r

C19_InsufficientBaselineSentinel ==
    (report.op = "analyze" /\ report.baselines = <<>>) =>
        /\ report.anomaly.has_anomaly = FALSE
        /\ report.anomaly.anomalies = <<>>
        /\ report.anomaly.scored = <<>>
        /\ report.anomaly.overall_risk = "unknown"
        /\ report.anomaly.message = "Insufficient baseline data for analysis"

\* values were sent for two signals while no signal has a baseline
C19_Witness ==
    /\ report.op = "analyze"
    /\ report.baselines = <<>>
    /\ Len(report.current_data) = 2
    /\ report.anomaly.overall_risk = "unknown"

\* the scored items whose baseline has iqr = 0 and median = 0
ScoredOnZeroBaseline ==
    {k \in DOMAIN report.anomaly.scored :
        /\ report.baselines[report.anomaly.scored[k].signal].iqr = 0
        /\ report.baselines[report.anomaly.scored[k].signal].median = 0}

\* C20 as claimed: on a baseline with iqr = 0 and median = 0 nothing is
\* raised and, for every current value, the deviation is 0 and the signal is
\* not reported.
C20_ZeroBaselineZeroDeviation ==
    /\ ret # Response("analyze", 500, 0)
    /\ report.op = "analyze" =>
          \A k \in ScoredOnZeroBaseline :
             /\ report.anomaly.scored[k].z.num = 0
             /\ EntriesOf(report.anomaly.scored[k].signal) = {}

\* C20 as amended: on a baseline with iqr = 0 and median = 0 nothing is
\* raised, and for a current value of 0 the deviation is 0 and the signal is
\* not reported.
C20_ZeroBaselineNoError ==
    /\ ret # Response("analyze", 500, 0)
    /\ report.op = "analyze" =>
          \A k \in ScoredOnZeroBaseline :
             /\ ~report.anomaly.scored[k].z.raised
             /\ report.anomaly.scored[k].current_value = 0
                  => /\ report.anomaly.scored[k].z.num = 0
                     /\ report.anomaly.scored[k].z_score = 0
                     /\ EntriesOf(report.anomaly.scored[k].signal) = {}

\* a current value of 0 was scored against a baseline with iqr = 0, median = 0
C20_Witness ==
    /\ report.op = "analyze"
    /\ \E k \in ScoredOnZeroBaseline : report.anomaly.scored[k].current_value = 0

\* the user's values of a signal in the 7 days before now, oldest first
RecentValues(user_id, signal) ==
    LET rows == SortSeq(SelectSeq(readings,
                           LAMBDA r : /\ r.user_id = user_id
                                      /\ r.timestamp >= now - 24 * 7
                                      /\ r.data[signal] # None),
                        LAMBDA a, b : a.timestamp < b.timestamp)
    IN  [i \in 1..Len(rows) |-> Val(rows[i].data[signal])]

\* abs(deviation) >= 1.5 for the mean of the last 3 of `values`, in twelfths
Deviates(values, baseline) ==
    LET n == Len(values)
        z == calculate_modified_z_score(
                 4 * (values[n] + values[n - 1] + values[n - 2]),
                 3 * baseline.median, 3 * baseline.iqr, 12)
    IN  2 * Abs(z.num) >= 3 * z.den

\* the drift entries of the last analysis for a signal
DriftOf(signal) == {d \in report.drift.drift_signals : d.signal = signal}

\* C21: analyze_drift reports a signal exactly when it has a 30-day baseline,
\* at least 3 values in the recent window and abs(deviation) >= 1.5 for the
\* mean of its last 3 values; a reported signal is sustained exactly when it
\* has at least 5 recent values, and its trend is unknown exactly when it is
\* not sustained, else increasing for a slope > 0 and decreasing otherwise.
C21_DriftReportedExactly ==
    report.op = "analyze" =>
        \A signal \in DetectorSignals :
            LET recent == RecentValues(report.user_id, signal)
                long == learn_baseline(report.user_id, 30, now)
            IN  /\ DriftOf(signal) # {}
                     <=> /\ signal \in DOMAIN long
                         /\ Len(recent) >= 3
                         /\ Deviates(recent, long[signal])
                /\ \A d \in DriftOf(signal) :
                      /\ d.sustained <=> Len(recent) >= 5
                      /\ d.trend = "unknown" <=> ~d.sustained
                      /\ d.sustained =>
                            d.trend = IF slope_sign(recent) > 0
                                      THEN "increasing" ELSE "decreasing"

\* the items of current_data that carry a value
PresentItems(current_data) == SelectSeq(current_data, LAMBDA item : item[2] # None)

\* the most a reading can add to the composite score through the signals it
\* holds: 15 for the heart rate, 10 for the HRV, 8 for the sleep duration,
\* 20 for a blood pressure (both values), 15 for the blood sugar, 5 for the
\* activity level
MostPoints(h) ==
    (IF h.heart_rate # None THEN 15 ELSE 0)
    + (IF h.hrv # None THEN 10 ELSE 0)
    + (IF h.sleep_duration # None THEN 8 ELSE 0)
    + (IF h.bp_systolic # None /\ h.bp_diastolic # None THEN 20 ELSE 0)
    + (IF h.blood_sugar # None THEN 15 ELSE 0)
    + (IF h.activity_level # None THEN 5 ELSE 0)

\* C24: a signal without a current value is skipped.  The detector scores no
\* item whose value is None and lists no anomaly for it, its result is the
\* result for the items that carry a value, and it never raises.  The
\* composer names no deviation for a signal the reading lacks, and its raw
\* score lies between 0 and the most the present signals can add; it never
\* raises either.
C24_MissingSignalsSkipped ==
    /\ ret.code # 500
    /\ report.op = "analyze" =>
          /\ \A k \in DOMAIN report.current_data :
                report.current_data[k][2] = None =>
                   /\ \A j \in DOMAIN report.anomaly.scored :
                         report.anomaly.scored[j].signal # report.current_data[k][1]
                   /\ EntriesOf(report.current_data[k][1]) = {}
          /\ report.anomaly =
                detect_anomalies(PresentItems(report.current_data), report.baselines)
          /\ ~report.anomaly.raised
    /\ calc.analysis # "" =>
          LET h == Val(health[care_scores[Len(care_scores)].user_id])
          IN  /\ h.heart_rate = None => ~Mentions(calc.deviations, "heart_rate")
              /\ h.hrv = None => ~Mentions(calc.deviations, "hrv")
              /\ h.sleep_duration = None => ~Mentions(calc.deviations, "sleep")
              /\ (h.bp_systolic = None \/ h.bp_diastolic = None)
                    => ~Mentions(calc.deviations, "blood_pressure")
              /\ h.blood_sugar = None => ~Mentions(calc.deviations, "blood_sugar")
              /\ h.activity_level = None => ~Mentions(calc.deviations, "activity")
              /\ calc.raw_num >= 0
              /\ calc.raw_num <= calc.score_den * MostPoints(h)

\* the latest reading lacks the heart rate and the activity level, both of
\* which have a baseline; its blood pressure was scored by the detector and
\* by the composer
C24_Witness ==
    /\ report.op = "analyze"
    /\ \E k \in DOMAIN report.current_data :
          /\ report.current_data[k] = <<"heart_rate", None>>
          /\ "heart_rate" \in DOMAIN report.baselines
    /\ \E k \in DOMAIN report.current_data :
          /\ report.current_data[k] = <<"activity_level", None>>
          /\ "activity_level" \in DOMAIN report.baselines
    /\ EntriesOf("bp_systolic") # {}
    /\ calc.analysis # ""
    /\ Mentions(calc.deviations, "blood_pressure")
    /\ calc.raw_num = 12 * calc.score_den

----------------------------------------------------------------------------
(* Properties of the composer *)

\* C5: the stored status and the escalation level of the stored score agree:
\* stable with 0, mild with 1, moderate with 2, high with 3.
C5_StatusMatchesLevel ==
    \A i \in DOMAIN care_scores :
        LET level == determine_level(care_scores[i].care_score)
        IN  /\ care_scores[i].status = "stable" <=> level = 0
            /\ care_scores[i].status = "mild" <=> level = 1
            /\ care_scores[i].status = "moderate" <=> level = 2
            /\ care_scores[i].status = "high" <=> level = 3

\* the band of a clamped score num/den: [0,30], (30,50], (50,70], (70,100]
BandOf(num, den) ==
    CASE 0 <= num /\ num <= 30 * den -> "stable"
      [] 30 * den < num /\ num <= 50 * den -> "mild"
      [] 50 * den < num /\ num <= 70 * den -> "moderate"
      [] 70 * den < num /\ num <= 100 * den -> "high"
      [] OTHER -> "none"

\* C6: the status stored with a CareScore is the band of the clamped score it
\* was computed from; 30 is stable, 31 and 50 mild, 51 and 70 moderate, 71 high.
C6_StatusBanding ==
    ret = Response("calculate", 200, 1) =>
        LET status == care_scores[Len(care_scores)].status
            num == calc.score_num
            den == calc.score_den
        IN  /\ status = BandOf(num, den)
            /\ num = 30 * den => status = "stable"
            /\ num = 31 * den => status = "mild"
            /\ num = 50 * den => status = "mild"
            /\ num = 51 * den => status = "moderate"
            /\ num = 70 * den => status = "moderate"
            /\ num = 71 * den => status = "high"

\* a CareScore whose clamped score is exactly 70 was stored
C6_Witness ==
    /\ ret = Response("calculate", 200, 1)
    /\ calc.score_num = 70 * calc.score_den
    /\ care_scores[Len(care_scores)].status = "moderate"

\* C7: every stored CareScore has its composite score in [0,100].
C7_ScoreInRange ==
    \A i \in DOMAIN care_scores :
        /\ care_scores[i].care_score >= 0
        /\ care_scores[i].care_score <= 100 * 100

\* a CareScore was stored for a reading whose contributions sum below 0
C7_Witness ==
    /\ ret = Response("calculate", 200, 1)
    /\ calc.raw_num < 0
    /\ care_scores[Len(care_scores)].care_score = 0

\* C8: every stored composite score is the sum of the stored components,
\* clamped to [0,100].
C8_CompositeIsComponentSum ==
    \A i \in DOMAIN care_scores :
        care_scores[i].care_score =
            Min(100 * 100,
                Max(0, care_scores[i].severity_score
                       + care_scores[i].persistence_score
                       + care_scores[i].cross_signal_score
                       + care_scores[i].manual_modifier))

\* C9: every stored CareScore has severity in [0,40], persistence in [0,25],
\* cross_signal in [0,20] and manual_modifier in [0,10].
C9_ComponentsInBounds ==
    \A i \in DOMAIN care_scores :
        /\ care_scores[i].severity_score >= 0
        /\ care_scores[i].severity_score <= 40 * 100
        /\ care_scores[i].persistence_score >= 0
        /\ care_scores[i].persistence_score <= 25 * 100
        /\ care_scores[i].cross_signal_score >= 0
        /\ care_scores[i].cross_signal_score <= 20 * 100
        /\ care_scores[i].manual_modifier >= 0
        /\ care_scores[i].manual_modifier <= 10 * 100

\* a CareScore with all six deviations reported (cross_signal 18) was stored
C9_Witness ==
    \E i \in DOMAIN care_scores : care_scores[i].cross_signal_score = 18 * 100

\* the ways the call to the language model fails: a non-success status code,
\* a timeout or another exception of the HTTP client
FailedResponses == {"error_status", "timeout"}

\* C22: a calculation whose language-model call fails answers 200 and stores
\* the row a successful call stores as far as care_score and status go, with
\* the templated explanation, and the response carries the template and one
\* to four fallback suggestions.
C22_GeminiFailureIsNotFatal ==
    [][\A user_id \in Users, response \in FailedResponses :
          (/\ health[user_id] # None
           /\ calculate_care_score(user_id, get_gemini_analysis(response)))
          => \A succeeded \in
                   {CareScoreRow(user_id,
                                 calculate_simple_care_score(Val(health[user_id]),
                                                             baseline_hr[user_id]),
                                 get_gemini_analysis("object"), now)} :
                /\ ret' = Response("calculate", 200, 1)
                /\ Len(care_scores') = Len(care_scores) + 1
                /\ care_scores'[Len(care_scores')].care_score = succeeded.care_score
                /\ care_scores'[Len(care_scores')].status = succeeded.status
                /\ care_scores'[Len(care_scores')].explanation = "template"
                /\ succeeded.explanation = "gemini"
                /\ calc'.analysis = "template"
                /\ Len(calc'.suggestions) \in 1..4
                /\ \A i \in DOMAIN calc'.suggestions :
                      calc'.suggestions[i] # "gemini"]_vars

\* a score of 50 or more was stored with the template and four fallback
\* suggestions
C22_Witness ==
    /\ ret = Response("calculate", 200, 1)
    /\ care_scores # <<>>
    /\ care_scores[Len(care_scores)].explanation = "template"
    /\ care_scores[Len(care_scores)].care_score >= 50 * 100
    /\ calc.analysis = "template"
    /\ Len(calc.suggestions) = 4


\* the heart-rate median, in quarters, of a learn_baseline call over the
\* user's rows of the last `days` days: none with fewer than five values
LearnedMedian(user_id, days) ==
    LET values == signal_values(window_rows(user_id, days, now), "heart_rate")
    IN  IF Len(values) >= 5 THEN Some(median4(values)) ELSE None

\* the profile field after a call with that median: the median, or the
\* previous value when the call has none
Follows(prev, next, learned) ==
    IF learned # None
    THEN next # None /\ 4 * Val(next) = Val(learned)
    ELSE next = prev

\* the medians of the learn_baseline calls of one analysis, in order:
\* detect_anomalies' over 14 days, then analyze_drift's over 30 days when it
\* has three rows
AnalysisCalls(user_id, code) ==
    IF code = 404 THEN <<>>
    ELSE IF code = 200 /\ Len(window_rows(user_id, 7, now)) >= 3
    THEN <<LearnedMedian(user_id, 14), LearnedMedian(user_id, 30)>>
    ELSE <<LearnedMedian(user_id, 14)>>

\* the median of the last call of the sequence that has one, if any
LastProducing(calls) ==
    LET producing == {i \in DOMAIN calls : calls[i] # None}
    IN  IF producing = {} THEN None
        ELSE calls[CHOOSE i \in producing : \A j \in producing : j <= i]

\* C29: a learn_baseline call overwrites User.baseline_heart_rate with the
\* call's heart-rate median only when the call produced a heart-rate
\* baseline, and otherwise leaves it (and every other user's) as it was, so
\* the field is the median of the most recent call that produced one
C29_ProfileKeepsLatestMedian ==
    [][/\ (ret'.op = "train" /\ report'.op = "learn_baseline")
            => \A u \in Users :
                  Follows(baseline_hr[u], baseline_hr'[u],
                          IF u = report'.user_id
                          THEN LearnedMedian(u, report'.days) ELSE None)
       /\ ret'.op = "analyze"
            => \E user_id \in AnalyzeUserIds :
                  \A u \in Users :
                     Follows(baseline_hr[u], baseline_hr'[u],
                             IF u = user_id
                             THEN LastProducing(AnalysisCalls(user_id, ret'.code))
                             ELSE None)]_vars

\* a 14-day call without a heart-rate baseline has left the median of an
\* earlier call in the profile
C29_Witness ==
    /\ report.op = "learn_baseline"
    /\ report.user_id = 1
    /\ report.days = 14
    /\ "heart_rate" \notin DOMAIN report.baselines
    /\ baseline_hr[1] # None

----------------------------------------------------------------------------
(* Properties of the API keys and the ingest webhook *)

\* the stored keys that are active, unexpired and of an active user
LiveKeys ==
    {i \in DOMAIN api_keys :
        /\ api_keys[i].is_active
        /\ (api_keys[i].expires_at = None \/ Val(api_keys[i].expires_at) >= now)
        /\ api_keys[i].user_id \in Users}

\* C27: a key validates only while it is the raw form of a stored key that
\* is active, unexpired and of an active user; once the key is revoked or
\* its expiry has passed, GET /auth/validate answers 401 for it
C27_OnlyLiveKeysValidate ==
    [][\A raw_key \in PresentedKeys :
          (validate_key(raw_key) /\ ret'.code = 200)
            => \E i \in LiveKeys : api_keys[i].key = sha256(raw_key)]_vars

\* the users a presented key belongs to: the owners of the live stored keys
\* it is the raw form of
KeyOwners(raw_key) ==
    {api_keys[i].user_id : i \in {j \in LiveKeys : api_keys[j].key = sha256(raw_key)}}

\* C28: POST /webhook/ingest stores readings only under the user the
\* presented key belongs to, and a key of no user is answered 401 with
\* nothing stored
C28_IngestStoresUnderKeyOwner ==
    [][\A raw_key \in PresentedKeys, payload \in IngestPayloads :
          ingest_webhook(raw_key, payload)
            => /\ KeyOwners(raw_key) = {} => (ret'.code = 401 /\ health' = health)
               /\ \A u \in Users :
                     health'[u] # health[u] => u \in KeyOwners(raw_key)]_vars

----------------------------------------------------------------------------
(* Properties of the care-team connections *)

============================================================================
